---------------------------- MODULE Spec2Model ----------------------------
(***************************************************************************)
(* The Groq relay: the long-running express server (server entry file,     *)
(* src/unnamed/part_000) and the serverless handlers api/translate.js and  *)
(* api/health.js.                                                          *)
(*                                                                         *)
(* A JavaScript value is a tagged record.  A string is a sequence of       *)
(* pieces: every character that JSON escapes (quote, backslash, newline)   *)
(* is a piece of its own, and a run of other characters may be one piece.  *)
(* A number is kept in tenths (0.7 is 7, 1000 is 10000).                   *)
(***************************************************************************)
EXTENDS Integers, Sequences, FiniteSets, TLC

VARIABLES
    env,        \* process.env: the variables the handlers read
    req,        \* per request: the request as it arrived
    pc,         \* per request: where its handler stands
    res,        \* per request: the headers set on its response object so far
    calls,      \* per request: the calls made to the Groq API, in order
    upstream,   \* per request: what the fetch to the Groq API came back with
    resp        \* per request: the responses sent to its client, in order

vars == <<env, req, pc, res, calls, upstream, resp>>

(***************************************************************************)
(* Bounds of the model.                                                    *)
(***************************************************************************)
\* concurrent client requests of the specification SpecConc
NReq == 2
\* longest content string a client sends to /ai/:task
MaxLen == 2

--------------------------------------------------------------------------
(***************************************************************************)
(* JavaScript values                                                       *)
(***************************************************************************)
Undef == [t |-> "undef"]
Null == [t |-> "null"]
NaN == [t |-> "nan"]
Bool(b) == [t |-> "bool", b |-> b]
Num(n) == [t |-> "num", n |-> n]
Str(s) == [t |-> "str", s |-> s]
Arr(a) == [t |-> "arr", a |-> a]
\* an object is the sequence of its <<key, value>> pairs
Obj(f) == [t |-> "obj", f |-> f]

\* the result of evaluating an expression: a value, or a thrown Error
Ok(v) == [thrown |-> FALSE, v |-> v]
Throw(msg) == [thrown |-> TRUE, msg |-> msg]

\* ToBoolean: what `!x`, `x || y` and `if (x)` test
Truthy(v) ==
    CASE v.t = "undef" -> FALSE
      [] v.t = "null" -> FALSE
      [] v.t = "nan" -> FALSE
      [] v.t = "bool" -> v.b
      [] v.t = "num" -> v.n # 0
      [] v.t = "str" -> v.s # <<>>
      [] OTHER -> TRUE

\* typeof v
TypeOf(v) ==
    CASE v.t = "undef" -> "undefined"
      [] v.t = "str" -> "string"
      [] v.t \in {"num", "nan"} -> "number"
      [] v.t = "bool" -> "boolean"
      [] OTHER -> "object"

\* a || b
OrElse(a, b) == IF Truthy(a) THEN a ELSE b

HasKey(o, k) == o.t = "obj" /\ \E i \in 1..Len(o.f) : o.f[i][1] = k

\* o.k and o[k]: throws on undefined and null, undefined when there is no such
\* property
Get(o, k) ==
    IF o.t \in {"undef", "null"}
    THEN Throw("Cannot read properties of " \o o.t)
    ELSE IF HasKey(o, k)
         THEN Ok(o.f[CHOOSE i \in 1..Len(o.f) : o.f[i][1] = k][2])
         ELSE Ok(Undef)

\* o[0]
Index0(o) ==
    IF o.t \in {"undef", "null"}
    THEN Throw("Cannot read properties of " \o o.t)
    ELSE IF o.t = "arr" /\ Len(o.a) >= 1 THEN Ok(o.a[1])
    ELSE IF o.t = "str" /\ Len(o.s) >= 1 THEN Ok(Str(<<o.s[1]>>))
    ELSE Ok(Undef)

\* o?.k
GetOpt(o, k) == IF o.t \in {"undef", "null"} THEN Ok(Undef) ELSE Get(o, k)

Digit(d) == <<"0", "1", "2", "3", "4", "5", "6", "7", "8", "9">>[d + 1]

RECURSIVE NatToStr(_)
NatToStr(n) == IF n < 10 THEN <<Digit(n)>> ELSE NatToStr(n \div 10) \o <<Digit(n % 10)>>

RECURSIVE Join(_)
\* Array.prototype.join(","), which String(array) is; the model's arrays hold
\* numbers and objects
Join(a) ==
    IF a = <<>> THEN <<>>
    ELSE LET h == a[1]
             hs == CASE h.t = "num" ->
                          NatToStr(h.n \div 10)
                          \o (IF h.n % 10 = 0 THEN <<>> ELSE <<".", Digit(h.n % 10)>>)
                     [] h.t = "str" -> h.s
                     [] h.t \in {"undef", "null"} -> <<>>
                     [] OTHER -> <<"[object Object]">>
         IN IF Len(a) = 1 THEN hs ELSE hs \o <<",">> \o Join(Tail(a))

\* String(v), the conversion a template literal `${v}` applies
JsString(v) ==
    CASE v.t = "str" -> v.s
      [] v.t = "undef" -> <<"undefined">>
      [] v.t = "null" -> <<"null">>
      [] v.t = "nan" -> <<"NaN">>
      [] v.t = "bool" -> IF v.b THEN <<"true">> ELSE <<"false">>
      [] v.t = "num" -> Join(<<v>>)
      [] v.t = "arr" -> Join(v.a)
      [] OTHER -> <<"[object Object]">>

IsDigit(c) == c \in {"0", "1", "2", "3", "4", "5", "6", "7", "8", "9"}

DigitVal(c) == CHOOSE d \in 0..9 : Digit(d) = c

RECURSIVE LeadingDigits(_)
LeadingDigits(s) ==
    IF s # <<>> /\ IsDigit(Head(s)) THEN <<Head(s)>> \o LeadingDigits(Tail(s)) ELSE <<>>

RECURSIVE DigitsVal(_)
DigitsVal(s) == IF s = <<>> THEN 0 ELSE DigitsVal(SubSeq(s, 1, Len(s) - 1)) * 10 + DigitVal(s[Len(s)])

\* parseInt(v): the leading decimal digits of String(v), NaN when there are none
ParseInt(v) ==
    LET s == JsString(v)
        d == LeadingDigits(s)
    IN IF d = <<>> THEN NaN ELSE Num(DigitsVal(d) * 10)

\* parseFloat(v): leading digits, then an optional point and digits; the model's
\* inputs have at most one digit after the point
ParseFloat(v) ==
    LET s == JsString(v)
        d == LeadingDigits(s)
        rest == SubSeq(s, Len(d) + 1, Len(s))
        f == IF rest # <<>> /\ Head(rest) = "." THEN LeadingDigits(Tail(rest)) ELSE <<>>
    IN IF d = <<>> /\ f = <<>> THEN NaN
       ELSE Num(DigitsVal(d) * 10 + (IF f = <<>> THEN 0 ELSE DigitVal(f[1])))

RECURSIVE JsonEscape(_)
\* the inside of the string literal JSON.stringify writes for a string
JsonEscape(s) ==
    IF s = <<>> THEN <<>>
    ELSE (CASE Head(s) = "\"" -> <<"\\", "\"">>
            [] Head(s) = "\\" -> <<"\\", "\\">>
            [] Head(s) = "\n" -> <<"\\", "n">>
            [] OTHER -> <<Head(s)>>) \o JsonEscape(Tail(s))

RECURSIVE JsonUnescape(_)
\* the string a JSON parser reads from the inside of a string literal
JsonUnescape(s) ==
    IF s = <<>> THEN <<>>
    ELSE IF Head(s) = "\\" /\ Len(s) >= 2
         THEN (IF s[2] = "n" THEN <<"\n">> ELSE <<s[2]>>) \o JsonUnescape(Tail(Tail(s)))
         ELSE <<Head(s)>> \o JsonUnescape(Tail(s))

--------------------------------------------------------------------------
(***************************************************************************)
(* Requests, responses and the process environment                         *)
(***************************************************************************)
Clients == 1..NReq
\* the request /ai/:task sends to its own /translate is request r + NReq
Inner(r) == r + NReq
Ids == 1..(2 * NReq)

NoReq == [deploy |-> "none"]
None == [kind |-> "none"]

\* res.header(...) of the server's middleware, res.setHeader(...) of api/translate.js
CorsHeaders ==
    { <<"Access-Control-Allow-Origin", "*">>,
      <<"Access-Control-Allow-Headers",
        "Origin, X-Requested-With, Content-Type, Accept, Authorization">>,
      <<"Access-Control-Allow-Methods", "GET, POST, PUT, DELETE, OPTIONS">> }

\* res.status(s).json(v), res.status(s).end() and a file express.static sends
Json(v) == [kind |-> "json", val |-> v]
Empty == [kind |-> "empty", val |-> Undef]
File == [kind |-> "file", val |-> Undef]
Response(status, headers, body) == [status |-> status, headers |-> headers, body |-> body]

ErrorBody(msg) == Obj(<< <<"error", Str(msg)>> >>)

\* what a handler does before it first suspends: it responds, or it calls out
Respond(status, body) == [kind |-> "respond", status |-> status, body |-> body]
Fetch(prompt) == [kind |-> "fetch", prompt |-> prompt]
FetchSelf(prompt) == [kind |-> "self", prompt |-> prompt]

\* Catch answering with res.status(500).end()
CatchNoBody(msg) == Respond(500, Empty)

\* the catch block of the handlers
Catch(msg) == Respond(500, Json(ErrorBody(<<"Internal server error: ", msg>>)))

\* the body of the fetch to the Groq API
UpstreamCall(e, prompt) ==
    [ url |-> "https://api.groq.com/openai/v1/chat/completions",
      method |-> "POST",
      authorization |-> <<"Bearer ">> \o JsString(e.GROQ_API_KEY),
      model |-> OrElse(e.GROQ_MODEL, Str(<<"llama-3.1-8b-instant">>)),
      messages |-> << [role |-> "user", content |-> prompt] >>,
      max_tokens |-> OrElse(ParseInt(e.MAX_TOKENS), Num(10000)),
      temperature |-> OrElse(ParseFloat(e.TEMPERATURE), Num(7)) ]

MissingKeyMessage(deploy) ==
    IF deploy = "server"
    THEN <<"Server configuration error: GROQ_API_KEY not found in environment variables">>
    ELSE <<"Server configuration error: GROQ_API_KEY not found">>

\* TranslateStart with the credential checked before the prompt
TranslateStartKeyFirst(e, deploy, body) ==
    LET prompt == Get(body, "prompt")
    IN IF prompt.thrown THEN Catch(prompt.msg)
       ELSE IF ~Truthy(e.GROQ_API_KEY)
       THEN Respond(500, Json(ErrorBody(MissingKeyMessage(deploy))))
       ELSE IF ~Truthy(prompt.v) \/ TypeOf(prompt.v) # "string"
       THEN Respond(400, Json(ErrorBody(
                <<"Invalid request: prompt is required and must be a string">>)))
       ELSE Fetch(prompt.v)

\* POST /translate up to the fetch: the prompt and the credential are checked
TranslateStart(e, deploy, body) ==
    LET prompt == Get(body, "prompt")
    IN IF prompt.thrown THEN Catch(prompt.msg)
       ELSE IF ~Truthy(prompt.v) \/ TypeOf(prompt.v) # "string"
       THEN Respond(400, Json(ErrorBody(
                <<"Invalid request: prompt is required and must be a string">>)))
       ELSE IF ~Truthy(e.GROQ_API_KEY)
       THEN Respond(500, Json(ErrorBody(MissingKeyMessage(deploy))))
       ELSE Fetch(prompt.v)

\* response.ok
IsOk(status) == status >= 200 /\ status <= 299

\* await response.json()
ResponseJson(up) ==
    IF up.body.json THEN Ok(up.body.val) ELSE Throw("invalid json response body")

\* the branch taken when the upstream status is not a success
TranslateUpstreamError(deploy, up) ==
    LET errorData == ResponseJson(up)
    IN IF errorData.thrown THEN Catch(errorData.msg)
       ELSE LET error == Get(errorData.v, "error")
            IN IF error.thrown THEN Catch(error.msg)
               ELSE LET message == GetOpt(error.v, "message")
                        shown == OrElse(message.v, Str(<<"API request failed">>))
                    IN Respond(up.status, Json(Obj(
                           IF deploy = "server"
                           THEN << <<"error", shown>>, <<"details", errorData.v>> >>
                           ELSE << <<"error", shown>> >>)))

\* BadShape without its last test: !data.choices || !data.choices[0]
BadShapeNoMessage(data) ==
    LET choices == Get(data, "choices")
    IN IF choices.thrown THEN choices
       ELSE IF ~Truthy(choices.v) THEN Ok(TRUE)
       ELSE Ok(~Truthy(Index0(choices.v).v))

\* !data.choices || !data.choices[0] || !data.choices[0].message
BadShape(data) ==
    LET choices == Get(data, "choices")
    IN IF choices.thrown THEN choices
       ELSE IF ~Truthy(choices.v) THEN Ok(TRUE)
       ELSE LET first == Index0(choices.v)
            IN IF ~Truthy(first.v) THEN Ok(TRUE)
               ELSE LET message == Get(first.v, "message")
                    IN Ok(~Truthy(message.v))

\* the branch taken when the upstream status is a success
TranslateUpstreamOk(up) ==
    LET data == ResponseJson(up)
    IN IF data.thrown THEN Catch(data.msg)
       ELSE LET bad == BadShape(data.v)
            IN IF bad.thrown THEN Catch(bad.msg)
               ELSE IF bad.v
               THEN Respond(500, Json(ErrorBody(<<"Invalid response from AI service">>)))
               ELSE Respond(200, Json(data.v))

\* POST /translate from the fetch's outcome on
TranslateFinish(deploy, up) ==
    IF up.kind = "reject" THEN Catch("fetch failed")
    ELSE IF ~IsOk(up.status) THEN TranslateUpstreamError(deploy, up)
    ELSE TranslateUpstreamOk(up)

--------------------------------------------------------------------------
(***************************************************************************)
(* POST /ai/:task                                                          *)
(***************************************************************************)
Tasks == {"summary", "grammar", "tags", "translate", "terms", "define", "detailed-define"}

\* the switch over the task: the template literal of each case
TaskPrompt(task, content, language) ==
    CASE task = "summary" ->
           <<"Please provide a concise 2-3 sentence summary of the following text:",
             "\n", "\n">> \o JsString(content)
      [] task = "grammar" ->
           <<"Please check the following text for grammar errors and provide suggestions for improvement:",
             "\n", "\n">> \o JsString(content)
      [] task = "tags" ->
           <<"Based on the following text, suggest 5 relevant tags (single words or short phrases). Return only the tags separated by commas:",
             "\n", "\n">> \o JsString(content)
      [] task = "translate" ->
           <<"Translate the following text to ">> \o JsString(language)
           \o <<". Maintain the original meaning and tone. Only return the translated text without any additional comments:",
                "\n", "\n">> \o JsString(content)
      [] task = "terms" ->
           <<"Identify 8-10 key technical terms, concepts, or important words from the following text. Return only the terms separated by commas:",
             "\n", "\n">> \o JsString(content)
      [] task = "define" ->
           <<"Provide a brief, clear definition (1-2 sentences maximum) for the term: ", "\"">>
           \o JsString(content)
           \o <<"\"", ". Focus on the most relevant meaning in context.">>
      [] task = "detailed-define" ->
           <<"Provide a comprehensive but concise explanation of the term: ", "\"">>
           \o JsString(content)
           \o <<"\"", ". Include its definition, context, and why it's important. Keep it informative but not too lengthy (3-4 sentences maximum).">>

\* AiStart with the task looked up before the content is checked
AiStartTaskFirst(task, body) ==
    LET content == Get(body, "content")
        language == Get(body, "language")
    IN IF content.thrown THEN Catch(content.msg)
       ELSE IF task \notin Tasks
       THEN Respond(400, Json(ErrorBody(
                <<"Invalid task. Supported tasks: summary, grammar, tags, translate, terms, define, detailed-define">>)))
       ELSE IF ~Truthy(content.v)
       THEN Respond(400, Json(ErrorBody(<<"Content is required">>)))
       ELSE IF task = "translate" /\ ~Truthy(language.v)
       THEN Respond(400, Json(ErrorBody(<<"Language is required for translation">>)))
       ELSE FetchSelf(TaskPrompt(task, content.v, language.v))

\* POST /ai/:task up to the fetch of the server's own /translate
AiStart(task, body) ==
    LET content == Get(body, "content")
        language == Get(body, "language")
    IN IF content.thrown THEN Catch(content.msg)
       ELSE IF ~Truthy(content.v)
       THEN Respond(400, Json(ErrorBody(<<"Content is required">>)))
       ELSE IF task = "translate" /\ ~Truthy(language.v)
       THEN Respond(400, Json(ErrorBody(<<"Language is required for translation">>)))
       ELSE IF task \notin Tasks
       THEN Respond(400, Json(ErrorBody(
                <<"Invalid task. Supported tasks: summary, grammar, tags, translate, terms, define, detailed-define">>)))
       ELSE FetchSelf(TaskPrompt(task, content.v, language.v))

\* SelfBody with the prompt put between quotes as it is, not escaped
SelfBodyNotEscaped(prompt) == Obj(<< <<"prompt", Str(JsonUnescape(prompt))>> >>)

\* JSON.stringify({ prompt }) as express.json() of the receiving side reads it
SelfBody(prompt) == Obj(<< <<"prompt", Str(JsonUnescape(JsonEscape(prompt)))>> >>)

\* POST /ai/:task from the answer of its own /translate on: the body is parsed
\* and sent with res.json
AiFinish(inner) ==
    IF inner.body.kind # "json" THEN Catch("invalid json response body")
    ELSE Respond(200, inner.body)

--------------------------------------------------------------------------
(***************************************************************************)
(* The server's middleware chain and the serverless handlers               *)
(***************************************************************************)
\* express.static("."): the files of the working directory
StaticFiles == {"/index.html", "/script.js"}

HealthBody(e) ==
    Obj(<< <<"status", Str(<<"ok">>)>>, <<"timestamp", Str(<<"toISOString()">>)>>,
           <<"groqConfigured", Bool(Truthy(e.GROQ_API_KEY))>> >>)

\* the route a request reaches once the CORS middleware has run
Route(e, q) ==
    CASE q.method = "GET" /\ q.path = "/health" -> Respond(200, Json(HealthBody(e)))
      [] q.method = "POST" /\ q.path = "/translate" -> TranslateStart(e, "server", q.body)
      [] q.method = "POST" /\ q.path = "/ai" -> AiStart(q.task, q.body)
      [] OTHER -> Respond(404, Json(ErrorBody(<<"Endpoint not found">>)))

\* app.use in the order of registration: express.json, express.static, the CORS
\* middleware, the routes, the error handler, the 404 handler.  The result is
\* the headers set on the response and what the chain does
Server(e, q) ==
    IF q.malformed
    THEN [headers |-> {}, step |-> Respond(500, Json(ErrorBody(<<"Something went wrong!">>)))]
    ELSE IF q.method = "GET" /\ q.path \in StaticFiles
    THEN [headers |-> {}, step |-> Respond(200, File)]
    ELSE [headers |-> CorsHeaders, step |-> Route(e, q)]

\* api/translate.js
ApiTranslate(e, q) ==
    [ headers |-> CorsHeaders,
      step |-> IF q.method = "OPTIONS" THEN Respond(200, Empty)
               ELSE IF q.method # "POST"
               THEN Respond(405, Json(ErrorBody(<<"Method not allowed">>)))
               ELSE TranslateStart(e, "api/translate", q.body) ]

\* api/health.js
ApiHealth(e, q) ==
    [ headers |-> {},
      step |-> IF q.method # "GET"
               THEN Respond(405, Json(ErrorBody(<<"Method not allowed">>)))
               ELSE Respond(200, Json(HealthBody(e))) ]

Entry(e, q) ==
    CASE q.deploy = "server" -> Server(e, q)
      [] q.deploy = "api/translate" -> ApiTranslate(e, q)
      [] q.deploy = "api/health" -> ApiHealth(e, q)

--------------------------------------------------------------------------
(***************************************************************************)
(* Inputs                                                                  *)
(***************************************************************************)
\* the characters of a content string: plain, quote, backslash, newline, and
\* a piece of template-like text
Chars == {"a", "\"", "\\", "\n", "${content}"}

RECURSIVE SeqsUpTo(_, _)
SeqsUpTo(S, n) ==
    IF n = 0 THEN {<<>>}
    ELSE LET shorter == SeqsUpTo(S, n - 1)
         IN shorter \cup {Append(s, c) : s \in shorter, c \in S}

NonStrings ==
    {Null, Num(0), Num(50), Bool(FALSE), Bool(TRUE), Arr(<<>>), Arr(<<Num(10), Num(20)>>),
     Obj(<<>>)}

\* Undef is the field left out of the body
ContentValues == {Str(s) : s \in SeqsUpTo(Chars, MaxLen)} \cup NonStrings \cup {Undef}
LanguageValues == {Undef, Str(<<>>), Str(<<"French">>), Str(<<"\"">>), Num(50)}
PromptValues ==
    {Undef, Str(<<>>), Str(<<"hi">>), Str(<<"a", "\"">>), Null, Num(0), Num(50),
     Bool(TRUE), Arr(<<>>), Obj(<<>>)}

\* a JSON body with the given fields, those that are undefined left out
BodyOf(pairs) == Obj(SelectSeq(pairs, LAMBDA kv : kv[2] # Undef))

Request(deploy, method, path, task, body) ==
    [deploy |-> deploy, method |-> method, path |-> path, task |-> task,
     malformed |-> FALSE, body |-> body]

\* a request whose JSON body does not parse
Malformed(method, path, task) ==
    [deploy |-> "server", method |-> method, path |-> path, task |-> task,
     malformed |-> TRUE, body |-> Undef]

TranslateRequests ==
    {Request(d, "POST", "/translate", "", BodyOf(<< <<"prompt", p>> >>))
        : d \in {"server", "api/translate"}, p \in PromptValues}
    \cup {Request("api/translate", "POST", "/translate", "", Null)}

AiRequests ==
    {Request("server", "POST", "/ai", t, BodyOf(<< <<"content", c>>, <<"language", l>> >>))
        : t \in (Tasks \ {"translate"}) \cup {"bogus"}, c \in ContentValues, l \in {Undef}}
    \cup
    {Request("server", "POST", "/ai", "translate",
             BodyOf(<< <<"content", c>>, <<"language", l>> >>))
        : c \in ContentValues, l \in LanguageValues}

OtherRequests ==
    {Request("server", m, p, "", Obj(<<>>))
        : m \in {"GET", "OPTIONS"}, p \in {"/health", "/translate", "/index.html", "/nope"}}
    \cup {Request("api/translate", m, "/translate", "", Obj(<<>>)) : m \in {"GET", "OPTIONS"}}
    \cup {Request("api/health", m, "/health", "", Obj(<<>>)) : m \in {"GET", "POST"}}
    \cup {Malformed("POST", "/translate", ""), Malformed("POST", "/ai", "summary"),
          Malformed("POST", "/nope", "")}

AllRequests == TranslateRequests \cup AiRequests \cup OtherRequests

\* what the Groq API may answer, and the fetch that fails in transport
Reject == [kind |-> "reject", status |-> 0, body |-> [json |-> FALSE, val |-> Undef]]
Answer(status, body) == [kind |-> "resp", status |-> status, body |-> body]
NotJson == [json |-> FALSE, val |-> Undef]
JsonText(v) == [json |-> TRUE, val |-> v]

Completion == Obj(<< <<"choices", Arr(<< Obj(<< <<"message", Obj(<< <<"content", Str(<<"X">>)>> >>)>> >>) >>)>> >>)

UpstreamBodies ==
    {NotJson} \cup
    {JsonText(v) : v \in
        {Null, Obj(<<>>), Completion,
         Obj(<< <<"choices", Arr(<<>>)>> >>),
         Obj(<< <<"choices", Arr(<<Null>>)>> >>),
         Obj(<< <<"choices", Arr(<<Obj(<<>>)>>)>> >>),
         Obj(<< <<"choices", Arr(<<Obj(<< <<"message", Str(<<>>)>> >>)>>)>> >>),
         Obj(<< <<"choices", Arr(<<Obj(<< <<"message", Null>> >>)>>)>> >>),
         Obj(<< <<"error", Obj(<< <<"message", Str(<<"Rate limit reached">>)>> >>)>> >>),
         Obj(<< <<"error", Obj(<<>>)>> >>),
         Obj(<< <<"error", Str(<<"bad gateway">>)>> >>)}}

UpstreamStatuses == {200, 401, 503}

UpstreamOutcomes == {Reject} \cup {Answer(s, b) : s \in UpstreamStatuses, b \in UpstreamBodies}

\* the outcomes the concurrent specification draws from
ConcOutcomes ==
    {Reject, Answer(200, JsonText(Completion)), Answer(200, JsonText(Obj(<<>>))),
     Answer(503, NotJson),
     Answer(401, JsonText(Obj(<< <<"error", Obj(<< <<"message", Str(<<"Rate limit reached">>)>> >>)>> >>)))}

ConcRequests ==
    {Request("server", "POST", "/translate", "", BodyOf(<< <<"prompt", p>> >>))
        : p \in {Undef, Str(<<"hi">>)}}
    \cup {Request("server", "POST", "/ai", "summary", BodyOf(<< <<"content", Str(<<"a">>)>> >>))}

EnvOf(key, model, maxTokens, temperature) ==
    [GROQ_API_KEY |-> key, GROQ_MODEL |-> model, MAX_TOKENS |-> maxTokens,
     TEMPERATURE |-> temperature]

KeyValues == {Undef, Str(<<>>), Str(<<"gsk_k">>)}
ModelValues == {Undef, Str(<<>>), Str(<<"mixtral-8x7b">>)}
MaxTokensValues ==
    {Undef, Str(<<>>), Str(<<"0">>), Str(<<"5", "0", "0">>), Str(<<"a">>), Str(<<"5", "a">>)}
TemperatureValues ==
    {Undef, Str(<<>>), Str(<<"0">>), Str(<<"0", ".", "0">>), Str(<<"0", ".", "2">>),
     Str(<<"1">>), Str(<<"a">>)}

--------------------------------------------------------------------------
(***************************************************************************)
(* The state machine                                                       *)
(***************************************************************************)
InitWith(Envs) ==
    /\ env \in Envs
    /\ req = [i \in Ids |-> NoReq]
    /\ pc = [i \in Ids |-> "idle"]
    /\ res = [i \in Ids |-> {}]
    /\ calls = [i \in Ids |-> <<>>]
    /\ upstream = [i \in Ids |-> None]
    /\ resp = [i \in Ids |-> <<>>]

\* the server as started with or without a credential, the rest at its default
Init == InitWith({EnvOf(k, Undef, Undef, Undef) : k \in KeyValues})

\* the server as started under every configuration
InitConfig ==
    InitWith({EnvOf(k, m, x, t) : k \in {Str(<<"gsk_k">>)}, m \in ModelValues,
                                  x \in MaxTokensValues, t \in TemperatureValues})

\* res.status(s).json(body): the response leaves with the headers set so far
Send(i, headers, step) ==
    /\ resp' = [resp EXCEPT ![i] = Append(@, Response(step.status, headers, step.body))]
    /\ res' = [res EXCEPT ![i] = headers]

\* request i, holding q, enters the middleware chain (or the serverless handler)
\* and runs until it has responded or suspends on a fetch
Handle(i, q) ==
    LET r == Entry(env, q)
    IN CASE r.step.kind = "respond" ->
              /\ Send(i, r.headers, r.step)
              /\ req' = [req EXCEPT ![i] = q]
              /\ pc' = [pc EXCEPT ![i] = "done"]
              /\ UNCHANGED <<env, calls, upstream>>
         [] r.step.kind = "fetch" ->
              /\ calls' = [calls EXCEPT ![i] = Append(@, UpstreamCall(env, r.step.prompt))]
              /\ req' = [req EXCEPT ![i] = q]
              /\ pc' = [pc EXCEPT ![i] = "awaitFetch"]
              /\ res' = [res EXCEPT ![i] = r.headers]
              /\ UNCHANGED <<env, upstream, resp>>
         [] r.step.kind = "self" ->
              /\ req' = [req EXCEPT ![i] = q,
                                    ![Inner(i)] = Request("server", "POST", "/translate", "",
                                                          SelfBody(r.step.prompt))]
              /\ pc' = [pc EXCEPT ![i] = "awaitInner", ![Inner(i)] = "arrived"]
              /\ res' = [res EXCEPT ![i] = r.headers]
              /\ UNCHANGED <<env, calls, upstream, resp>>

\* a client's request arrives
Receive(r, q) ==
    /\ pc[r] = "idle"
    /\ Handle(r, q)

\* the request /ai/:task sent to its own /translate arrives
ReceiveSelf(r) ==
    /\ pc[Inner(r)] = "arrived"
    /\ Handle(Inner(r), req[Inner(r)])

\* the fetch of /ai/:task to its own /translate fails in transport: the catch
\* block answers
SelfFetchFails(r) ==
    /\ pc[r] = "awaitInner"
    /\ pc[Inner(r)] = "arrived"
    /\ Send(r, res[r], Catch("fetch failed"))
    /\ pc' = [pc EXCEPT ![r] = "done", ![Inner(r)] = "lost"]
    /\ UNCHANGED <<env, req, calls, upstream>>

\* the Groq API answers, or the fetch fails in transport
UpstreamResponds(i, out) ==
    /\ pc[i] = "awaitFetch"
    /\ upstream' = [upstream EXCEPT ![i] = out]
    /\ pc' = [pc EXCEPT ![i] = "fetched"]
    /\ UNCHANGED <<env, req, res, calls, resp>>

\* the /translate handler resumes after the fetch
TranslateContinue(i) ==
    /\ pc[i] = "fetched"
    /\ Send(i, res[i], TranslateFinish(req[i].deploy, upstream[i]))
    /\ pc' = [pc EXCEPT ![i] = "done"]
    /\ UNCHANGED <<env, req, calls, upstream>>

\* the /ai/:task handler resumes after its own /translate has answered
AiContinue(r) ==
    /\ pc[r] = "awaitInner"
    /\ pc[Inner(r)] = "done"
    /\ Send(r, res[r], AiFinish(resp[Inner(r)][1]))
    /\ pc' = [pc EXCEPT ![r] = "done"]
    /\ UNCHANGED <<env, req, calls, upstream>>

\* one client request with every input and every upstream outcome
Next ==
    \/ \E q \in AllRequests : Receive(1, q)
    \/ ReceiveSelf(1)
    \/ SelfFetchFails(1)
    \/ \E i \in Ids, out \in UpstreamOutcomes : UpstreamResponds(i, out)
    \/ \E i \in Ids : TranslateContinue(i)
    \/ AiContinue(1)

Spec == Init /\ [][Next]_vars

\* one relayed request under every configuration
NextConfig ==
    \/ \E q \in ConcRequests : Receive(1, q)
    \/ ReceiveSelf(1)
    \/ SelfFetchFails(1)
    \/ \E i \in Ids, out \in ConcOutcomes : UpstreamResponds(i, out)
    \/ \E i \in Ids : TranslateContinue(i)
    \/ AiContinue(1)

SpecConfig == InitConfig /\ [][NextConfig]_vars

\* NReq client requests in flight at once
NextConc ==
    \/ \E r \in Clients, q \in ConcRequests : Receive(r, q)
    \/ \E r \in Clients : ReceiveSelf(r)
    \/ \E r \in Clients : SelfFetchFails(r)
    \/ \E i \in Ids, out \in ConcOutcomes : UpstreamResponds(i, out)
    \/ \E i \in Ids : TranslateContinue(i)
    \/ \E r \in Clients : AiContinue(r)

SpecConc == Init /\ [][NextConc]_vars

--------------------------------------------------------------------------
(***************************************************************************)
(* Properties                                                              *)
(***************************************************************************)
\* the one response sent for request i
Sent(i) == resp[i][1]

IsNonEmptyString(v) == v.t = "str" /\ v.s # <<>>

\* request i has reached the server or the serverless handler (the request
\* /ai/:task sends to its own /translate is first in transit, and may be lost)
Reached(i) == req[i] # NoReq /\ pc[i] \notin {"arrived", "lost"}

\* request i is a POST to the given route of the long-running server whose body parsed
ServerPost(i, path) ==
    /\ req[i] # NoReq
    /\ req[i].deploy = "server" /\ req[i].method = "POST" /\ req[i].path = path
    /\ ~req[i].malformed

Field(i, k) == Get(req[i].body, k).v

HasError(body) == body.kind = "json" /\ HasKey(body.val, "error")

\* the /ai/:task request r names a task of the table and carries a non-empty
\* content string (and, for translate, a non-empty language string)
ValidAi(r) ==
    /\ ServerPost(r, "/ai")
    /\ req[r].task \in Tasks
    /\ IsNonEmptyString(Field(r, "content"))
    /\ req[r].task = "translate" => IsNonEmptyString(Field(r, "language"))

\* C1: for every valid task, content and language, once /ai/:task has answered
\* from the answer of its own /translate, its status and body are the status
\* and body /translate gave for the resolved prompt.
C1_SameContractAsTranslate ==
    \A r \in Clients :
        (ValidAi(r) /\ pc[r] = "done" /\ pc[Inner(r)] = "done")
            => /\ Sent(r).status = Sent(Inner(r)).status
               /\ Sent(r).body = Sent(Inner(r)).body

\* the template table of the specification, {content} and {language} marking
\* the places of substitution
SpecTemplate(task) ==
    CASE task = "summary" ->
           <<"Please provide a concise 2-3 sentence summary of the following text:",
             "\n", "\n", "{content}">>
      [] task = "grammar" ->
           <<"Please check the following text for grammar errors and provide suggestions for improvement:",
             "\n", "\n", "{content}">>
      [] task = "tags" ->
           <<"Based on the following text, suggest 5 relevant tags (single words or short phrases). Return only the tags separated by commas:",
             "\n", "\n", "{content}">>
      [] task = "translate" ->
           <<"Translate the following text to ", "{language}",
             ". Maintain the original meaning and tone. Only return the translated text without any additional comments:",
             "\n", "\n", "{content}">>
      [] task = "terms" ->
           <<"Identify 8-10 key technical terms, concepts, or important words from the following text. Return only the terms separated by commas:",
             "\n", "\n", "{content}">>
      [] task = "define" ->
           <<"Provide a brief, clear definition (1-2 sentences maximum) for the term: ",
             "\"", "{content}", "\"", ". Focus on the most relevant meaning in context.">>
      [] task = "detailed-define" ->
           <<"Provide a comprehensive but concise explanation of the term: ",
             "\"", "{content}", "\"",
             ". Include its definition, context, and why it's important. Keep it informative but not too lengthy (3-4 sentences maximum).">>

RECURSIVE Substitute(_, _, _)
Substitute(template, content, language) ==
    IF template = <<>> THEN <<>>
    ELSE (CASE Head(template) = "{content}" -> content
            [] Head(template) = "{language}" -> language
            [] OTHER -> <<Head(template)>>) \o Substitute(Tail(template), content, language)

\* C2: for every task of the table and every non-empty content string (and
\* language string for translate), the body /ai/:task sends to /translate holds
\* as its prompt exactly the task's template with content and language
\* substituted verbatim.
C2_PromptVerbatim ==
    \A r \in Clients :
        ValidAi(r) =>
            /\ req[Inner(r)] # NoReq
            /\ req[Inner(r)].body =
                 Obj(<< <<"prompt",
                          Str(Substitute(SpecTemplate(req[r].task), Field(r, "content").s,
                                         IF req[r].task = "translate"
                                         THEN Field(r, "language").s ELSE <<>>))>> >>)

C2_Witness ==
    /\ ValidAi(1)
    /\ req[1].task = "define"
    /\ Field(1, "content") = Str(<<"\\", "\"">>)
    /\ pc[Inner(1)] = "done"

\* request i is a POST /translate, on the server or on api/translate.js, whose
\* fetch of the Groq API got an answer, and the handler has finished
AnsweredTranslate(i) ==
    /\ req[i] # NoReq
    /\ req[i].path = "/translate"
    /\ pc[i] = "done"
    /\ upstream[i].kind = "resp"

\* the body has a choices[0].message field
HasMessageField(b) ==
    /\ b.json
    /\ HasKey(b.val, "choices")
    /\ Get(b.val, "choices").v.t = "arr"
    /\ Len(Get(b.val, "choices").v.a) >= 1
    /\ HasKey(Get(b.val, "choices").v.a[1], "message")

\* C3 as stated: on a success status the upstream body is forwarded with 200 if
\* it has a choices[0].message field, and 500 with an error body is sent
\* otherwise.
C3_ForwardIfMessageField ==
    \A i \in Ids :
        (AnsweredTranslate(i) /\ IsOk(upstream[i].status)) =>
            IF HasMessageField(upstream[i].body)
            THEN Sent(i).status = 200 /\ Sent(i).body = Json(upstream[i].body.val)
            ELSE Sent(i).status = 500 /\ HasError(Sent(i).body)

\* the value of choices[0].message is neither null, false, 0, NaN nor ""
HasTruthyMessage(b) ==
    /\ HasMessageField(b)
    /\ LET m == Get(Get(b.val, "choices").v.a[1], "message").v
       IN /\ m.t \notin {"null", "undef", "nan"}
          /\ m.t = "bool" => m.b
          /\ m.t = "num" => m.n # 0
          /\ m.t = "str" => m.s # <<>>

\* C3 amended: on a success status the upstream body is forwarded with 200 if
\* its choices[0].message is there and truthy, and 500 with an error body is
\* sent otherwise; no other success body is forwarded.
C3_ForwardIfTruthyMessage ==
    \A i \in Ids :
        (AnsweredTranslate(i) /\ IsOk(upstream[i].status)) =>
            IF HasTruthyMessage(upstream[i].body)
            THEN Sent(i).status = 200 /\ Sent(i).body = Json(upstream[i].body.val)
            ELSE Sent(i).status = 500 /\ HasError(Sent(i).body)
                 /\ Sent(i).body # Json(upstream[i].body.val)

C3_Witness ==
    /\ AnsweredTranslate(1)
    /\ upstream[1] =
         Answer(200, JsonText(Obj(<< <<"choices", Arr(<<Obj(<< <<"message", Str(<<>>)>> >>)>>)>> >>)))
    /\ Sent(1).status = 500

\* the message of an upstream error body, 'API request failed' when there is none
UpstreamMessage(b) ==
    IF b.json /\ HasKey(b.val, "error") /\ HasKey(Get(b.val, "error").v, "message")
       /\ Truthy(Get(Get(b.val, "error").v, "message").v)
    THEN Get(Get(b.val, "error").v, "message").v
    ELSE Str(<<"API request failed">>)

\* C4: every upstream answer with a non-success status s, whatever its body, is
\* relayed with status s and a JSON body whose error field is the upstream
\* message, or 'API request failed'.
C4_StatusPassthrough ==
    \A i \in Ids :
        (AnsweredTranslate(i) /\ ~IsOk(upstream[i].status)) =>
            /\ Sent(i).status = upstream[i].status
            /\ HasError(Sent(i).body)
            /\ Get(Sent(i).body.val, "error").v = UpstreamMessage(upstream[i].body)

\* request i is a POST /translate with a JSON object as its body
TranslatePost(i) ==
    /\ Reached(i)
    /\ req[i].path = "/translate" /\ req[i].method = "POST"
    /\ req[i].deploy \in {"server", "api/translate"}
    /\ ~req[i].malformed
    /\ req[i].body.t = "obj"

InvalidTaskBody ==
    Json(ErrorBody(<<"Invalid task. Supported tasks: summary, grammar, tags, translate, terms, define, detailed-define">>))

\* C6 as stated: /ai/:task with a task outside the table fails with the
\* InvalidTask error for every request body.
C6_UnknownTaskAlwaysInvalidTask ==
    \A r \in Clients :
        (ServerPost(r, "/ai") /\ req[r].task \notin Tasks) =>
            /\ pc[r] = "done"
            /\ Sent(r).status = 400 /\ Sent(r).body = InvalidTaskBody

\* missing, null, false, 0, or the empty string
IsFalsy(v) == v \in {Undef, Null, NaN, Bool(FALSE), Num(0), Str(<<>>)}

\* C6 amended: /ai/:task with a task outside the table always fails with 400 and
\* sends nothing on: with the InvalidTask error when content is there and not
\* empty, with 'Content is required' when content is missing or empty.
C6_UnknownTaskFails ==
    \A r \in Clients :
        (ServerPost(r, "/ai") /\ req[r].task \notin Tasks) =>
            /\ pc[r] = "done" /\ Len(resp[r]) = 1
            /\ Sent(r).status = 400
            /\ Sent(r).body = IF IsFalsy(Field(r, "content"))
                              THEN Json(ErrorBody(<<"Content is required">>))
                              ELSE InvalidTaskBody
            /\ req[Inner(r)] = NoReq

C6_Witness ==
    /\ ServerPost(1, "/ai") /\ req[1].task = "bogus"
    /\ Field(1, "content") = Str(<<"a">>)
    /\ Sent(1).body = InvalidTaskBody

\* C7: /ai/:task fails with 400 and builds no prompt whenever content is missing
\* or not a string, and for translate whenever language is missing or not a
\* string.
C7_NonStringRejected ==
    \A r \in Clients :
        (/\ ServerPost(r, "/ai")
         /\ \/ Field(r, "content").t # "str"
            \/ req[r].task = "translate" /\ Field(r, "language").t # "str") =>
            /\ pc[r] = "done"
            /\ Sent(r).status = 400
            /\ req[Inner(r)] = NoReq

\* C8: every response of the server carries Access-Control-Allow-Origin: * and
\* the allowed-headers and allowed-methods headers.
C8_CorsOnEveryResponse ==
    \A i \in Ids :
        (req[i] # NoReq /\ req[i].deploy = "server") =>
            \A k \in 1..Len(resp[i]) : CorsHeaders \subseteq resp[i][k].headers

\* the values of MAX_TOKENS and TEMPERATURE that are numbers, with the number
\* each one writes (in tenths)
ValidMaxTokens == {<<Str(<<"0">>), Num(0)>>, <<Str(<<"5", "0", "0">>), Num(5000)>>}
ValidTemperature ==
    {<<Str(<<"0">>), Num(0)>>, <<Str(<<"0", ".", "0">>), Num(0)>>,
     <<Str(<<"0", ".", "2">>), Num(2)>>, <<Str(<<"1">>), Num(10)>>}

\* C9: the call to the Groq API carries the configured model, max_tokens and
\* temperature whenever the variable is set to a valid value, 0 included, and
\* the defaults llama-3.1-8b-instant, 1000 and 0.7 when it is not set.
C9_ConfiguredValuesSent ==
    \A i \in Ids : \A k \in 1..Len(calls[i]) :
        LET call == calls[i][k]
        IN /\ IsNonEmptyString(env.GROQ_MODEL) => call.model = env.GROQ_MODEL
           /\ env.GROQ_MODEL = Undef => call.model = Str(<<"llama-3.1-8b-instant">>)
           /\ \A p \in ValidMaxTokens : env.MAX_TOKENS = p[1] => call.max_tokens = p[2]
           /\ env.MAX_TOKENS = Undef => call.max_tokens = Num(10000)
           /\ \A p \in ValidTemperature : env.TEMPERATURE = p[1] => call.temperature = p[2]
           /\ env.TEMPERATURE = Undef => call.temperature = Num(7)

\* C10: under any interleaving of concurrent requests and any upstream outcome,
\* a POST /translate calls the Groq API at most once, is never stuck while its
\* fetch is out or has come back, and ends in exactly one response, which is
\* 200 with the upstream body or a JSON body with an error field.
C10_SinglePipeline ==
    \A i \in Ids :
        (Reached(i) /\ req[i].method = "POST" /\ req[i].path = "/translate") =>
            /\ Len(calls[i]) <= 1
            /\ pc[i] \in {"awaitFetch", "fetched", "done"}
            /\ pc[i] = "awaitFetch" =>
                  Len(calls[i]) = 1 /\ ENABLED (\E out \in ConcOutcomes : UpstreamResponds(i, out))
            /\ pc[i] = "fetched" => Len(calls[i]) = 1 /\ ENABLED TranslateContinue(i)
            /\ Len(resp[i]) = (IF pc[i] = "done" THEN 1 ELSE 0)
            /\ pc[i] = "done" =>
                  \/ /\ Sent(i).status = 200
                     /\ upstream[i].kind = "resp" /\ upstream[i].body.json
                     /\ Sent(i).body = Json(upstream[i].body.val)
                  \/ Sent(i).status # 200 /\ HasError(Sent(i).body)

C10_Witness ==
    /\ pc[1] = "done" /\ req[1].path = "/translate" /\ upstream[1] = Reject
    /\ pc[2] = "done" /\ req[2].path = "/translate" /\ Sent(2).status = 200
    /\ Len(calls[1]) = 1 /\ Len(resp[1]) = 1

==========================================================================
